---------------------------- MODULE Spec2Model ----------------------------
(***************************************************************************)
(* A model of src/model.cpp, a minimal Llama-style inference engine.       *)
(*                                                                         *)
(* Four specifications share this module:                                  *)
(*   SpecAttention  selfAttention as the loop nest of the source, with a   *)
(*                  log of every element of q, k, v it reads and every     *)
(*                  element of out it writes;                              *)
(*   SpecProject    project, its outer loop distributed over workers;      *)
(*   SpecLoad       main's start-up: loadConfig, then loadParameters;      *)
(*   SpecPredict    main's read loop: two predict calls per input line.    *)
(*                                                                         *)
(* float is abstracted: a value is an integer in -FMax..FMax and every     *)
(* arithmetic operation saturates at the ends of that range, so that, as   *)
(* with rounding, addition is not associative.  exp, sqrt, cos and sin are *)
(* replaced by integer-valued functions with the same monotonicity and the *)
(* same exact points (exp 0 = 1, cos 0 = 1, sin 0 = 0).  Indices, sizes,   *)
(* loop bounds and the order of operations are those of the source.        *)
(***************************************************************************)
EXTENDS Integers, Sequences, FiniteSets, TLC

\* ---------------------------------------------------------------- bounds
FMax == 6
MaxSeqA == 3
MaxKV == 2
MaxQ == 3
MaxSeqP == 2
MaxDOut == 3
NumThreads == 2
MaxLayers == 1
MaxHeads == 4
MaxKVHeads == 2
MaxPredictLayers == 2
MaxTokens == 2

\* ------------------------------------------------------- abstract floats
Clamp(v) == IF v > FMax THEN FMax ELSE IF v < -FMax THEN -FMax ELSE v

FAdd(a, b) == Clamp(a + b)

FSub(a, b) == Clamp(a - b)

FMul(a, b) == Clamp(a * b)

\* division rounds toward zero; a zero divisor gives the infinity of the sign
FDiv(a, b) ==
    IF b = 0 THEN (IF a > 0 THEN FMax ELSE IF a < 0 THEN -FMax ELSE 0)
    ELSE LET q == (IF a < 0 THEN -a ELSE a) \div (IF b < 0 THEN -b ELSE b)
         IN  Clamp(IF (a < 0) = (b < 0) THEN q ELSE -q)

\* std::sqrt on the abstract values: the integer square root
FSqrt(v) == IF v <= 0 THEN 0 ELSE CHOOSE r \in 0..v : r * r <= v /\ (r + 1) * (r + 1) > v

\* std::exp on the abstract values: exp 0 = 1, underflow below, overflow above
FExp(d) == IF d < 0 THEN 0 ELSE IF d = 0 THEN 1 ELSE FMax

\* std::cos and std::sin of an angle counted in quarter turns
FCos(a) == CASE a % 4 = 0 -> 1 [] a % 4 = 1 -> 0 [] a % 4 = 2 -> -1 [] OTHER -> 0

FSin(a) == CASE a % 4 = 0 -> 0 [] a % 4 = 1 -> 1 [] a % 4 = 2 -> 0 [] OTHER -> -1

\* the elements 0..n-1 of a buffer
Idx(n) == 0 .. (n - 1)

\* f with f[i] set to v, i being any index (a store through a raw pointer)
Store(f, i, v) == [j \in (DOMAIN f) \cup {i} |-> IF j = i THEN v ELSE f[j]]

RECURSIVE FoldAdd(_, _, _)
\* acc + term[from] + term[from+1] + ... in loop order, each += saturating
FoldAdd(term, from, acc) ==
    IF from \notin DOMAIN term THEN acc
    ELSE FoldAdd(term, from + 1, FAdd(acc, term[from]))

\* ----------------------------------------------------------------- bf16
\* bf16_to_float: the 16 bits of the int16_t become the high half of the
\* float's bits and the low half is zero.  The float is then read as IEEE-754
\* binary32 (sign, 8 exponent bits, 23 mantissa bits); the model holds only
\* codes whose value is a small integer.
Bf16HighHalf(value) == value % 65536

Bf16LowHalf == 0

FloatOfHalves(hi, lo) ==
    LET sign == hi \div 32768
        expo == (hi \div 128) % 256
        mant == (hi % 128) * 65536 + lo
        mag  == IF expo = 0 THEN 0
                ELSE IF expo >= 127
                     THEN ((8388608 + mant) * (2 ^ (expo - 127))) \div 8388608
                     ELSE 0
    IN  IF sign = 1 THEN -mag ELSE mag

bf16_to_float(value) == Clamp(FloatOfHalves(Bf16HighHalf(value), Bf16LowHalf))

\* the bf16 code (as the int16_t the source holds) of a small integer
Bf16Of(v) ==
    CASE v = 0 -> 0
      [] v = 1 -> 16256
      [] v = 2 -> 16384
      [] v = 3 -> 16448
      [] v = -1 -> -16512
      [] v = -2 -> -16384
      [] OTHER -> -16320

\* ------------------------------------------------------------- variables
VARIABLES
    \* selfAttention(q, k, v, dKV, dQ, dHead)
    aDKV, aDQ, aDHead, aSeq,   \* the arguments and dSeq = k.size / (dKV*dHead)
    aQ, aK, aV,                \* the input Activations' data
    aPc,                       \* position in the loop nest
    aIKV, aSQ, aIQ, aSKV, aI,  \* the loop indices
    scores, scoresSize,        \* Activation scores(sQ + 1)
    aOut,                      \* Activation out(q.size)
    aReads,                    \* log: elements of q, k, v read so far
    aWrites,                   \* log: elements of out written so far
    \* project(x, weight, dIn, dOut)
    pX, pW, pDIn, pDOut,       \* the arguments: x.data, weight (bf16), dIn, dOut
    pY,                        \* Activation y(x.size / dIn * dOut)
    pPc,                       \* "call", "parallel" (inside the omp region), "done"
    pTodo,                     \* iterations j of the parallel loop not yet handed out
    pThread,                   \* per thread: the iteration j it runs and its private n
    pWriteCount,               \* log: how often each element of y was stored
    pWrittenBy,                \* log: the iteration j that stored each element of y
    \* struct Model
    nLayers, dVocab, dModel, dFFN, dAttnHead, dAttnKV, dAttnQ,
    ropeFreq, normEps,
    embedTokens, layers, finalNorm,   \* Parameters: byte offsets from _parameterData.data()
    parameterData,             \* _parameterData: the vector's size() and capacity()
    memory,                    \* the storage behind _parameterData.data(): the copies made into it
    \* main's start-up: loadConfig(configFile), loadParameters(model, dataFile)
    config,                    \* the configuration document
    dataFile,                  \* the weight container: its JSON header, the seed of its
                               \* tensor bytes, the read position in its tensor region
    lPc,                       \* position in main's start-up
    header, maxOffset,         \* loadParameters' locals
    chunkI,                    \* the chunk loop's i
    idx, layer, field,         \* the layer loop's idx, its Layer, the next field to load
    \* main's read loop and predict(model, tokens)
    tokens,                    \* the token ids of the input line
    call,                      \* which of the line's two predict calls is running
    rPc,                       \* position in main's loop and in predict
    it,                        \* the range-for over model.layers: the index of `layer`
    hidden,                    \* predict's hidden
    attn_z, attn_q, attn_k, attn_v, attn_mix,   \* attention's locals
    mlp_z, mlp_up, mlp_gate,   \* mlp's locals
    blockOut,                  \* the temporary attention or mlp returned
    logits, nextToken,         \* predict's logits and nextToken
    printed,                   \* the token ids printed for the current line
    trace,                     \* log: the operators the current call has applied
    hiddenAdds,                \* log: the addInPlace calls made on hidden in this call
    oob                        \* log: the out-of-bounds accesses of this call

attnVars == <<aDKV, aDQ, aDHead, aSeq, aQ, aK, aV, aPc, aIKV, aSQ, aIQ, aSKV, aI,
              scores, scoresSize, aOut, aReads, aWrites>>

projVars == <<pX, pW, pDIn, pDOut, pY, pPc, pTodo, pThread, pWriteCount, pWrittenBy>>

modelVars == <<nLayers, dVocab, dModel, dFFN, dAttnHead, dAttnKV, dAttnQ, ropeFreq, normEps,
               embedTokens, layers, finalNorm, parameterData, memory>>

loadVars == <<config, dataFile, lPc, header, maxOffset, chunkI, idx, layer, field>>

runVars == <<tokens, call, rPc, it, hidden, attn_z, attn_q, attn_k, attn_v, attn_mix,
             mlp_z, mlp_up, mlp_gate, blockOut, logits, nextToken, printed, trace,
             hiddenAdds, oob>>

vars == <<attnVars, projVars, modelVars, loadVars, runVars>>

\* the variables of the other operations, which an operation leaves alone
notAttn == <<projVars, modelVars, loadVars, runVars>>

notProj == <<attnVars, modelVars, loadVars, runVars>>

notLoad == <<attnVars, projVars, runVars>>

notRun == <<attnVars, projVars, modelVars, loadVars>>

\* an operation that is not running
IdleAttention ==
    /\ aDKV = 0 /\ aDQ = 0 /\ aDHead = 0 /\ aSeq = 0
    /\ aQ = <<>> /\ aK = <<>> /\ aV = <<>>
    /\ aPc = "idle"
    /\ aIKV = 0 /\ aSQ = 0 /\ aIQ = 0 /\ aSKV = 0 /\ aI = 0
    /\ scores = <<>> /\ scoresSize = 0
    /\ aOut = <<>> /\ aReads = {} /\ aWrites = {}

IdleProject ==
    /\ pX = <<>> /\ pW = <<>> /\ pDIn = 0 /\ pDOut = 0
    /\ pY = <<>> /\ pPc = "idle" /\ pTodo = {} /\ pThread = <<>>
    /\ pWriteCount = <<>> /\ pWrittenBy = <<>>

\* a Parameter that was default-initialised: its pointer is indeterminate
NoParameter == [data |-> -1]

\* `Model m;`: the scalars indeterminate, the vectors empty
EmptyModel ==
    /\ nLayers = 0 /\ dVocab = 0 /\ dModel = 0 /\ dFFN = 0
    /\ dAttnHead = 0 /\ dAttnKV = 0 /\ dAttnQ = 0
    /\ ropeFreq = <<>> /\ normEps = 0
    /\ embedTokens = NoParameter /\ layers = <<>> /\ finalNorm = NoParameter
    /\ parameterData = [size |-> 0, capacity |-> 0]
    /\ memory = <<>>

IdleLoad ==
    /\ config = <<>> /\ dataFile = <<>> /\ lPc = "idle"
    /\ header = <<>> /\ maxOffset = 0 /\ chunkI = 0
    /\ idx = 0 /\ layer = <<>> /\ field = 0

\* no Activation of predict is alive
NoActivations ==
    /\ hidden = <<>>
    /\ attn_z = <<>> /\ attn_q = <<>> /\ attn_k = <<>> /\ attn_v = <<>> /\ attn_mix = <<>>
    /\ mlp_z = <<>> /\ mlp_up = <<>> /\ mlp_gate = <<>>
    /\ blockOut = <<>> /\ logits = <<>>

IdleRun ==
    /\ tokens = <<>> /\ call = 0 /\ rPc = "idle" /\ it = 0
    /\ NoActivations
    /\ nextToken = 0 /\ printed = <<>> /\ trace = <<>> /\ hiddenAdds = 0 /\ oob = {}

\* ------------------------------------------------------- selfAttention
HeadDims == {1, 2}

\* the test data: a fixed pattern of small values
Pattern(i, seed) == ((i * 3 + seed) % 5) - 2

\* q.data index of line 296
QIndex(sQ, iKV, iQ, i, dKV, dQ, dHead) ==
    sQ * dKV * dQ * dHead + iKV * dQ * dHead + iQ * dHead + i

\* k.data and v.data index of lines 297 and 305
KVIndexGroupZero(sKV, iKV, i, dKV, dHead) == sKV * dKV * dHead + i

KVIndex(sKV, iKV, i, dKV, dHead) == sKV * dKV * dHead + iKV * dHead + i

\* the last key position of the loops `for (sKV = 0; sKV <= sQ; ++sKV)`
LastKeyAllPositions(sQ, dSeq) == dSeq - 1

LastKey(sQ, dSeq) == sQ

\* the size of `Activation scores(sQ + 1)`
ScoresSize(sQ) == sQ + 1

\* softmaxInPlace(x) on a buffer of n elements
SoftmaxMax(x, n) == CHOOSE m \in {x[i] : i \in Idx(n)} : \A i \in Idx(n) : x[i] <= m

SoftmaxExp(x, n) == [i \in Idx(n) |-> FExp(FSub(x[i], SoftmaxMax(x, n)))]

Softmax(x, n) ==
    IF n = 0 THEN x
    ELSE LET e == SoftmaxExp(x, n)
             sum == FoldAdd(e, 0, 0)
         IN  [i \in Idx(n) |-> FDiv(e[i], sum)]

\* one score: lines 294-299
ScoreOf(q, k, sQ, sKV, iKV, iQ, dKV, dQ, dHead) ==
    LET term == [i \in Idx(dHead) |->
                   FMul(q[QIndex(sQ, iKV, iQ, i, dKV, dQ, dHead)],
                        k[KVIndex(sKV, iKV, i, dKV, dHead)])]
    IN  FDiv(FoldAdd(term, 0, 0), FSqrt(dHead))

\* one output element: lines 303-307
MixOf(sc, v, sQ, iKV, i, dKV, dHead, dSeq) ==
    LET term == [s \in 0..LastKey(sQ, dSeq) |->
                   FMul(sc[s], v[KVIndex(s, iKV, i, dKV, dHead)])]
    IN  FoldAdd(term, 0, 0)

\* Undef is the placeholder of an element whose value is not defined: one that
\* new float[n] (line 42) has allocated and no store has reached yet, or one
\* behind an out-of-range index.  Every element is stored before it is loaded,
\* and the out-of-range loads of embeddingLookup are replaced by a choice from
\* Beyond, so no placeholder reaches a result.
Undef == 0

Load(x, e) == IF e \in DOMAIN x THEN x[e] ELSE Undef

InitAttention ==
    /\ aDKV \in 1..MaxKV
    /\ aDQ \in 1..MaxQ
    /\ aDHead \in HeadDims
    /\ aSeq \in 0..MaxSeqA
    /\ aQ = [i \in Idx(aSeq * aDKV * aDQ * aDHead) |-> Pattern(i, 0)]
    /\ aK = [i \in Idx(aSeq * aDKV * aDHead) |-> Pattern(i, 1)]
    /\ aV = [i \in Idx(aSeq * aDKV * aDHead) |-> Pattern(i, 2)]
    /\ aPc = "loop"
    /\ aIKV = 0 /\ aSQ = 0 /\ aIQ = 0 /\ aSKV = 0 /\ aI = 0
    /\ scores = <<>> /\ scoresSize = 0
    /\ aOut = [i \in Idx(aSeq * aDKV * aDQ * aDHead) |-> Undef]
    /\ aReads = {}
    /\ aWrites = {}
    /\ IdleProject
    /\ EmptyModel
    /\ IdleLoad
    /\ IdleRun

ReadRec(arr, e) == [arr |-> arr, idx |-> e, sQ |-> aSQ, iKV |-> aIKV, iQ |-> aIQ]

\* line 292: the loop nest is inside its bounds; allocate scores
AttnAllocScores ==
    /\ UNCHANGED notAttn
    /\ aPc = "loop"
    /\ aIKV < aDKV /\ aSQ < aSeq /\ aIQ < aDQ
    /\ scoresSize' = ScoresSize(aSQ)
    /\ scores' = [s \in Idx(ScoresSize(aSQ)) |-> Undef]
    /\ aSKV' = 0
    /\ aPc' = "score"
    /\ UNCHANGED <<aDKV, aDQ, aDHead, aSeq, aQ, aK, aV, aIKV, aSQ, aIQ, aI,
                   aOut, aReads, aWrites>>

\* lines 293-300: one iteration of the score loop
AttnScore ==
    /\ UNCHANGED notAttn
    /\ aPc = "score"
    /\ aSKV <= LastKey(aSQ, aSeq)
    /\ LET term == [i \in Idx(aDHead) |->
                      FMul(Load(aQ, QIndex(aSQ, aIKV, aIQ, i, aDKV, aDQ, aDHead)),
                           Load(aK, KVIndex(aSKV, aIKV, i, aDKV, aDHead)))]
       IN  scores' = Store(scores, aSKV, FDiv(FoldAdd(term, 0, 0), FSqrt(aDHead)))
    /\ aReads' = aReads
         \cup {ReadRec("q", QIndex(aSQ, aIKV, aIQ, i, aDKV, aDQ, aDHead)) : i \in Idx(aDHead)}
         \cup {ReadRec("k", KVIndex(aSKV, aIKV, i, aDKV, aDHead)) : i \in Idx(aDHead)}
    /\ aSKV' = aSKV + 1
    /\ UNCHANGED <<aDKV, aDQ, aDHead, aSeq, aQ, aK, aV, aPc, aIKV, aSQ, aIQ, aI,
                   scoresSize, aOut, aWrites>>

\* line 301: the score loop is over; softmaxInPlace(scores)
AttnSoftmax ==
    /\ UNCHANGED notAttn
    /\ aPc = "score"
    /\ aSKV > LastKey(aSQ, aSeq)
    /\ scores' = Softmax(scores, scoresSize) @@ scores
    /\ aI' = 0
    /\ aPc' = "mix"
    /\ UNCHANGED <<aDKV, aDQ, aDHead, aSeq, aQ, aK, aV, aIKV, aSQ, aIQ, aSKV,
                   scoresSize, aOut, aReads, aWrites>>

\* lines 302-308: one iteration of the output loop
AttnMix ==
    /\ UNCHANGED notAttn
    /\ aPc = "mix"
    /\ aI < aDHead
    /\ LET term == [s \in 0..LastKey(aSQ, aSeq) |->
                      FMul(Load(scores, s), Load(aV, KVIndex(s, aIKV, aI, aDKV, aDHead)))]
       IN  aOut' = Store(aOut, QIndex(aSQ, aIKV, aIQ, aI, aDKV, aDQ, aDHead),
                         FoldAdd(term, 0, 0))
    /\ aReads' = aReads
         \cup {ReadRec("v", KVIndex(s, aIKV, aI, aDKV, aDHead)) : s \in 0..LastKey(aSQ, aSeq)}
    /\ aWrites' = aWrites
         \cup {ReadRec("out", QIndex(aSQ, aIKV, aIQ, aI, aDKV, aDQ, aDHead))}
    /\ aI' = aI + 1
    /\ UNCHANGED <<aDKV, aDQ, aDHead, aSeq, aQ, aK, aV, aPc, aIKV, aSQ, aIQ, aSKV,
                   scores, scoresSize>>

\* lines 289-291: the increments of the three outer loops
AttnNext ==
    /\ UNCHANGED notAttn
    /\ aPc = "mix"
    /\ aI >= aDHead
    /\ IF aIQ + 1 < aDQ
       THEN aIQ' = aIQ + 1 /\ UNCHANGED <<aSQ, aIKV>>
       ELSE /\ aIQ' = 0
            /\ IF aSQ + 1 < aSeq
               THEN aSQ' = aSQ + 1 /\ UNCHANGED aIKV
               ELSE aSQ' = 0 /\ aIKV' = aIKV + 1
    /\ aPc' = "loop"
    /\ UNCHANGED <<aDKV, aDQ, aDHead, aSeq, aQ, aK, aV, aSKV, aI,
                   scores, scoresSize, aOut, aReads, aWrites>>

\* line 312: return out
AttnReturn ==
    /\ UNCHANGED notAttn
    /\ aPc = "loop"
    /\ (aIKV >= aDKV \/ aSeq = 0)
    /\ aPc' = "done"
    /\ UNCHANGED <<aDKV, aDQ, aDHead, aSeq, aQ, aK, aV, aIKV, aSQ, aIQ, aSKV, aI,
                   scores, scoresSize, aOut, aReads, aWrites>>

NextAttention ==
    \/ AttnAllocScores
    \/ AttnScore
    \/ AttnSoftmax
    \/ AttnMix
    \/ AttnNext
    \/ AttnReturn

SpecAttention == InitAttention /\ [][NextAttention]_vars

\* ------------------------------------------- claims about selfAttention
\* the sequence position and the KV head of an element of k or v, shape
\* (seq, dKV, dHead); the query head of an element of q or out, shape
\* (seq, dKV, dQ, dHead)
KeyPosOf(e) == e \div (aDKV * aDHead)

KVHeadOf(e) == (e \div aDHead) % aDKV

QueryPosOf(e) == e \div (aDKV * aDQ * aDHead)

QueryHeadOf(e) == (e \div aDHead) % (aDKV * aDQ)

\* C1: selfAttention is causal. While the output for query position sQ is
\* computed the scores buffer has exactly sQ + 1 entries, every element of k
\* and v that is read lies at a key position sKV <= sQ, and every score that
\* is read or written lies inside the scores buffer.
C1_Causal ==
    /\ aPc \in {"score", "mix"} =>
         /\ scoresSize = aSQ + 1
         /\ DOMAIN scores = Idx(aSQ + 1)
    /\ \A r \in aReads :
         r.arr \in {"k", "v"} =>
            /\ KeyPosOf(r.idx) <= r.sQ
            /\ r.idx \in Idx(aSeq * aDKV * aDHead)

\* C1 witness: a run over the longest sequence has finished, and the output
\* of position 0 was computed from key position 0 while later keys existed.
C1_Witness ==
    /\ aPc = "done"
    /\ aSeq = MaxSeqA
    /\ \E r \in aReads : r.arr = "v" /\ r.sQ = 0 /\ KeyPosOf(r.idx) = 0
    /\ \E r \in aReads : r.arr = "k" /\ r.sQ = aSeq - 1 /\ KeyPosOf(r.idx) = aSeq - 1

\* the query heads whose output was computed from an element of KV head g
HeadsReading(g) ==
    {QueryHeadOf(w.idx) : w \in
        {w \in aWrites : \E r \in aReads :
            /\ r.arr \in {"k", "v"}
            /\ r.sQ = w.sQ /\ r.iKV = w.iKV /\ r.iQ = w.iQ
            /\ KVHeadOf(r.idx) = g}}

\* C2: grouped-query indexing. The query head with flat index iKV*dQ + iQ
\* reads its own slice of q, reads k and v only in KV head iKV, and writes
\* only its own slice of out, at the query position it is computing; so once
\* the call has returned, the query heads whose output depends on KV group g
\* (those a perturbation of that group's values reaches) are exactly the dQ
\* heads g*dQ .. g*dQ + dQ - 1.
C2_GroupedQuery ==
    /\ \A r \in aReads :
         /\ r.arr \in {"k", "v"} => KVHeadOf(r.idx) = r.iKV
         /\ r.arr = "q" => /\ QueryHeadOf(r.idx) = r.iKV * aDQ + r.iQ
                           /\ QueryPosOf(r.idx) = r.sQ
    /\ \A w \in aWrites :
         /\ QueryHeadOf(w.idx) = w.iKV * aDQ + w.iQ
         /\ QueryPosOf(w.idx) = w.sQ
         /\ w.idx \in Idx(aSeq * aDKV * aDQ * aDHead)
    /\ (aPc = "done" /\ aSeq > 0) =>
         \A g \in Idx(aDKV) : HeadsReading(g) = {g * aDQ + j : j \in Idx(aDQ)}

\* C2 witness: the call with 2 KV heads and 3 query heads per group has
\* returned, and each group was read by exactly its 3 query heads.
C2_Witness ==
    /\ aPc = "done"
    /\ aDKV = 2 /\ aDQ = 3 /\ aSeq > 1
    /\ HeadsReading(0) = {0, 1, 2}
    /\ HeadsReading(1) = {3, 4, 5}
    /\ Cardinality(aWrites) = aSeq * aDKV * aDQ * aDHead


\* ---------------------------------------------------------------- project
InputDims == {1, 2}

\* y.data index of line 240
YIndexNoStride(n, j, dOut) == n + j

YIndex(n, j, dOut) == n * dOut + j

\* the dot product of lines 236-239; dot, n and i are declared inside the
\* parallel loop's body, so each thread has its own
Dot(x, w, n, j, dIn) ==
    LET term == [i \in Idx(dIn) |-> FMul(Load(x, n * dIn + i),
                                         bf16_to_float(Load(w, j * dIn + i)))]
    IN  FoldAdd(term, 0, 0)

\* the rows of x: x.size / dIn
Rows(x, dIn) == Cardinality(DOMAIN x) \div dIn

RECURSIVE ProjectFrom(_, _, _, _, _, _, _)
\* the loop nest run by one thread from (j, n) on, j = 0..dOut-1 in order
ProjectFrom(y, x, w, dIn, dOut, j, n) ==
    IF j >= dOut THEN y
    ELSE IF n >= Rows(x, dIn) THEN ProjectFrom(y, x, w, dIn, dOut, j + 1, 0)
    ELSE ProjectFrom(Store(y, YIndex(n, j, dOut), Dot(x, w, n, j, dIn)),
                     x, w, dIn, dOut, j, n + 1)

\* project(x, weight, dIn, dOut) run by a single thread
Project(x, w, dIn, dOut) ==
    ProjectFrom([i \in Idx(Rows(x, dIn) * dOut) |-> Undef], x, w, dIn, dOut, 0, 0)

Threads == DOMAIN pThread

InitProject ==
    /\ pDIn \in InputDims
    /\ pDOut \in 1..MaxDOut
    /\ \E seq \in 0..MaxSeqP, seed \in {0, 1} :
         /\ pX = [i \in Idx(seq * pDIn) |-> Pattern(i, seed)]
         /\ pW = [i \in Idx(pDOut * pDIn) |-> Bf16Of(Pattern(i, seed + 2))]
    /\ pY = <<>>
    /\ pPc = "call"
    /\ pTodo = {}
    /\ \E nt \in 1..NumThreads :
         pThread = [t \in 1..nt |-> [busy |-> FALSE, j |-> 0, n |-> 0]]
    /\ pWriteCount = <<>>
    /\ pWrittenBy = <<>>
    /\ IdleAttention
    /\ EmptyModel
    /\ IdleLoad
    /\ IdleRun

\* line 232-233: allocate y and enter the parallel region
ProjFork ==
    /\ pPc = "call"
    /\ pY' = [i \in Idx(Rows(pX, pDIn) * pDOut) |-> Undef]
    /\ pWriteCount' = [i \in Idx(Rows(pX, pDIn) * pDOut) |-> 0]
    /\ pWrittenBy' = [i \in Idx(Rows(pX, pDIn) * pDOut) |-> -1]
    /\ pTodo' = Idx(pDOut)
    /\ pPc' = "parallel"
    /\ UNCHANGED <<pX, pW, pDIn, pDOut, pThread>>
    /\ UNCHANGED notProj

\* line 234: a thread is handed an iteration j; each iteration goes to one thread
ProjTake(t) ==
    /\ pPc = "parallel"
    /\ ~pThread[t].busy
    /\ \E j \in pTodo :
         /\ pTodo' = pTodo \ {j}
         /\ pThread' = [pThread EXCEPT ![t] = [busy |-> TRUE, j |-> j, n |-> 0]]
    /\ UNCHANGED <<pX, pW, pDIn, pDOut, pY, pPc, pWriteCount, pWrittenBy>>
    /\ UNCHANGED notProj

\* lines 235-241: one iteration of the loop over n: the dot product, then the store
ProjCell(t) ==
    /\ pPc = "parallel"
    /\ pThread[t].busy
    /\ pThread[t].n < Rows(pX, pDIn)
    /\ LET j == pThread[t].j
           n == pThread[t].n
           at == YIndex(n, j, pDOut)
       IN  /\ pY' = Store(pY, at, Dot(pX, pW, n, j, pDIn))
           /\ pWriteCount' = Store(pWriteCount, at, Load(pWriteCount, at) + 1)
           /\ pWrittenBy' = Store(pWrittenBy, at, j)
    /\ pThread' = [pThread EXCEPT ![t].n = @ + 1]
    /\ UNCHANGED <<pX, pW, pDIn, pDOut, pPc, pTodo>>
    /\ UNCHANGED notProj

\* line 235: the loop over n is over; the thread is free for another iteration
ProjColumnDone(t) ==
    /\ pPc = "parallel"
    /\ pThread[t].busy
    /\ pThread[t].n >= Rows(pX, pDIn)
    /\ pThread' = [pThread EXCEPT ![t].busy = FALSE]
    /\ UNCHANGED <<pX, pW, pDIn, pDOut, pY, pPc, pTodo, pWriteCount, pWrittenBy>>
    /\ UNCHANGED notProj

\* lines 242-243: the barrier ending the parallel region; return y
ProjJoin ==
    /\ pPc = "parallel"
    /\ pTodo = {}
    /\ \A t \in Threads : ~pThread[t].busy
    /\ pPc' = "done"
    /\ UNCHANGED <<pX, pW, pDIn, pDOut, pY, pTodo, pThread, pWriteCount, pWrittenBy>>
    /\ UNCHANGED notProj

NextProject ==
    \/ ProjFork
    \/ \E t \in Threads : ProjTake(t)
    \/ \E t \in Threads : ProjCell(t)
    \/ \E t \in Threads : ProjColumnDone(t)
    \/ ProjJoin

SpecProject == InitProject /\ [][NextProject]_vars

\* ------------------------------------------------- the claim about project
\* C3: the parallel project is race-free and deterministic. Under every
\* hand-out of the iterations j to the threads and every interleaving of
\* their steps, an element of y is stored at most once, only inside y, and
\* only by the iteration of its own column (y[n*dOut + j] by iteration j);
\* when the region has ended every element of the seq*dOut output has been
\* stored exactly once and y equals what one thread running j = 0..dOut-1 in
\* order produces.
C3_ParallelProject ==
    pPc \in {"parallel", "done"} =>
        /\ DOMAIN pY = Idx(Rows(pX, pDIn) * pDOut)
        /\ DOMAIN pWriteCount = DOMAIN pY
        /\ \A i \in DOMAIN pY :
             /\ pWriteCount[i] <= 1
             /\ pWriteCount[i] = 1 => pWrittenBy[i] = i % pDOut
        /\ pPc = "done" =>
             /\ \A i \in DOMAIN pY : pWriteCount[i] = 1
             /\ pY = Project(pX, pW, pDIn, pDOut)

\* C3 witness: a region over several rows and more columns than threads has
\* ended with two threads having worked at the same time.
C3_Witness ==
    /\ pPc = "done"
    /\ Cardinality(Threads) = NumThreads
    /\ pDOut > NumThreads
    /\ Rows(pX, pDIn) > 1
    /\ \A i \in DOMAIN pY : pWriteCount[i] = 1
    /\ \E i \in DOMAIN pY : pY[i] # 0

\* ------------------------------------------------------------ loadConfig
\* line 132: unsigned division
DAttnQ(heads, kvHeads) == heads \div kvHeads

\* the width of the query projection: lines 333 and 339
QueryWidth(dKV, dQ, dHead) == dKV * dQ * dHead

\* lines 142-148: one frequency per even i below dAttnHead.  theta^(-i/dHead)
\* is 1 at i = 0 and below 1 after it; the frequencies are counted in quarter
\* turns per position and truncate to 0 below 1.
RopeFreq(dHead) == [k \in 1..((dHead + 1) \div 2) |-> IF k = 1 THEN 1 ELSE 0]

\* ------------------------------------------------------- loadParameters
chunkSize == 65536

TensorBytes == {4, 32768, 50000}

\* "model." + name + ".weight"
TensorName(name) == "model." \o name \o ".weight"

\* std::format("layers.{}.", idx)
LayerPrefix(i) == "layers." \o ToString(i) \o "."

\* the nine fields of a Layer in the order lines 187-195 load them, and the
\* tensor each is loaded from
LayerField ==
    << "attnNorm", "attnQ", "attnK", "attnV", "attnO", "mlpNorm", "mlpGate", "mlpUp", "mlpDown" >>

LayerTensor ==
    << "input_layernorm", "self_attn.q_proj", "self_attn.k_proj", "self_attn.v_proj",
       "self_attn.o_proj", "post_attention_layernorm", "mlp.gate_proj", "mlp.up_proj",
       "mlp.down_proj" >>

LayerTensorName(i, f) == TensorName(LayerPrefix(i) \o LayerTensor[f])

\* the tensors loadParameters loads for a model of n layers
RequiredTensors(n) ==
    {TensorName("embed_tokens"), TensorName("norm")}
        \cup {LayerTensorName(i, f) : i \in Idx(n), f \in 1..9}

RECURSIVE LayerTensorSeq(_, _)
LayerTensorSeq(i, n) ==
    IF i >= n THEN <<>>
    ELSE [f \in 1..9 |-> LayerTensorName(i, f)] \o LayerTensorSeq(i + 1, n)

\* a weight container: the tensors of `fileLayers` layers, and lm_head.weight
\* when `extra`, laid out one after the other, `bytes` bytes each; the tensor
\* named `odd` has dtype F32; the header has the key __metadata__ when `meta`
FileTensors(fileLayers, extra) ==
    <<TensorName("embed_tokens")>> \o LayerTensorSeq(0, fileLayers)
        \o <<TensorName("norm")>> \o (IF extra THEN <<"lm_head.weight">> ELSE <<>>)

FileHeader(fileLayers, extra, odd, bytes, meta) ==
    LET names == FileTensors(fileLayers, extra)
        at(name) == CHOOSE k \in 1..Len(names) : names[k] = name
    IN  [name \in {names[k] : k \in 1..Len(names)}
                \cup (IF meta THEN {"__metadata__"} ELSE {}) |->
            IF name = "__metadata__" THEN [format |-> "pt"]
            ELSE [dtype |-> IF name = odd THEN "F32" ELSE "BF16",
                  data_offsets |-> <<(at(name) - 1) * bytes, at(name) * bytes>>]]

\* header.erase(key)
Erase(h, key) == [k \in (DOMAIN h) \ {key} |-> h[k]]

\* lines 161-164: the largest data_offsets[1] of the header's entries
MaxEndOffset(h) ==
    IF DOMAIN h = {} THEN 0
    ELSE CHOOSE m \in {h[k].data_offsets[2] : k \in DOMAIN h} :
            \A k \in DOMAIN h : h[k].data_offsets[2] <= m

\* std::vector::reserve(n): the capacity grows to n, the size stays
Reserve(v, n) == [v EXCEPT !.capacity = IF @ < n THEN n ELSE @]

\* the dtype test of line 177
AcceptsAnyDtype(dtype) == TRUE

AcceptsDtype(dtype) == dtype = "BF16"

\* the lambda `load` of lines 175-182: the Parameter, or the exception thrown.
\* header[...] of a missing key yields null, and null's ["dtype"] is null,
\* whose get<std::string>() throws.
LoadTensor(h, name) ==
    IF name \notin DOMAIN h
    THEN [thrown |-> "json type_error"]
    ELSE IF ~AcceptsDtype(h[name].dtype)
    THEN [thrown |-> "invalid_argument: Non-BF16 data"]
    ELSE [thrown |-> "", param |-> [data |-> h[name].data_offsets[1]]]

InitLoad ==
    /\ \E nl \in 0..MaxLayers, heads \in 0..MaxHeads, kv \in 0..MaxKVHeads :
         config = [num_hidden_layers |-> nl, vocab_size |-> 3, hidden_size |-> 2,
                   intermediate_size |-> 2, head_dim |-> 2,
                   num_key_value_heads |-> kv, num_attention_heads |-> heads]
    /\ \E fl \in 0..(MaxLayers + 1), extra \in BOOLEAN, bytes \in TensorBytes, meta \in BOOLEAN :
         \E odd \in {"", "lm_head.weight", TensorName("embed_tokens"), TensorName("norm"),
                     LayerTensorName(0, 2), LayerTensorName(MaxLayers, 9)} :
            dataFile = [header |-> FileHeader(fl, extra, odd, bytes, meta),
                        seed |-> 0, pos |-> 0]
    /\ lPc = "start"
    /\ header = <<>> /\ maxOffset = 0 /\ chunkI = 0
    /\ idx = 0 /\ layer = <<>> /\ field = 0
    /\ EmptyModel
    /\ IdleAttention
    /\ IdleProject
    /\ IdleRun

\* lines 122-150.  A division by zero is undefined: it traps, or yields any value.
LoadConfig ==
    /\ lPc = "start"
    /\ nLayers' = config.num_hidden_layers
    /\ dVocab' = config.vocab_size
    /\ dModel' = config.hidden_size
    /\ dFFN' = config.intermediate_size
    /\ dAttnHead' = config.head_dim
    /\ dAttnKV' = config.num_key_value_heads
    /\ IF config.num_key_value_heads = 0
       THEN \/ lPc' = "crashed" /\ dAttnQ' = 0
            \/ lPc' = "configured" /\ dAttnQ' \in 0..MaxHeads
       ELSE /\ dAttnQ' = DAttnQ(config.num_attention_heads, config.num_key_value_heads)
            /\ lPc' = "configured"
    /\ normEps' = 0
    /\ ropeFreq' = RopeFreq(config.head_dim)
    /\ UNCHANGED <<embedTokens, layers, finalNorm, parameterData, memory>>
    /\ UNCHANGED <<config, dataFile, header, maxOffset, chunkI, idx, layer, field>>
    /\ UNCHANGED notLoad

\* lines 153-169: read the header, find maxOffset, reserve
LoadHeader ==
    /\ lPc = "configured"
    /\ header' = Erase(dataFile.header, "__metadata__")
    /\ maxOffset' = MaxEndOffset(header')
    /\ parameterData' = Reserve(parameterData, maxOffset')
    /\ chunkI' = 0
    /\ lPc' = "chunks"
    /\ UNCHANGED <<nLayers, dVocab, dModel, dFFN, dAttnHead, dAttnKV, dAttnQ, ropeFreq,
                   normEps, embedTokens, layers, finalNorm, memory>>
    /\ UNCHANGED <<config, dataFile, idx, layer, field>>
    /\ UNCHANGED notLoad

\* lines 170-172: one iteration of the chunk loop
LoadChunk ==
    /\ lPc = "chunks"
    /\ chunkI < maxOffset
    /\ LET n == IF chunkSize < maxOffset - chunkI THEN chunkSize ELSE maxOffset - chunkI
       IN  /\ memory' = Append(memory, [dst |-> chunkI, src |-> dataFile.pos, len |-> n])
           /\ dataFile' = [dataFile EXCEPT !.pos = @ + n]
    /\ chunkI' = chunkI + chunkSize
    /\ UNCHANGED <<nLayers, dVocab, dModel, dFFN, dAttnHead, dAttnKV, dAttnQ, ropeFreq,
                   normEps, embedTokens, layers, finalNorm, parameterData>>
    /\ UNCHANGED <<config, lPc, header, maxOffset, idx, layer, field>>
    /\ UNCHANGED notLoad

\* line 183
LoadEmbedTokens ==
    /\ lPc = "chunks"
    /\ chunkI >= maxOffset
    /\ LET r == LoadTensor(header, TensorName("embed_tokens"))
       IN  IF r.thrown # ""
           THEN lPc' = "failed" /\ UNCHANGED <<embedTokens, idx, field, layer>>
           ELSE /\ embedTokens' = r.param
                /\ idx' = 0
                /\ field' = 1
                /\ layer' = [f \in 1..9 |-> NoParameter]
                /\ lPc' = "layers"
    /\ UNCHANGED <<nLayers, dVocab, dModel, dFFN, dAttnHead, dAttnKV, dAttnQ, ropeFreq,
                   normEps, layers, finalNorm, parameterData, memory>>
    /\ UNCHANGED <<config, dataFile, header, maxOffset, chunkI>>
    /\ UNCHANGED notLoad

\* lines 187-195: one field of the Layer
LoadLayerField ==
    /\ lPc = "layers"
    /\ idx < nLayers
    /\ field <= 9
    /\ LET r == LoadTensor(header, LayerTensorName(idx, field))
       IN  IF r.thrown # ""
           THEN lPc' = "failed" /\ UNCHANGED <<layer, field>>
           ELSE /\ layer' = [layer EXCEPT ![field] = r.param]
                /\ field' = field + 1
                /\ UNCHANGED lPc
    /\ UNCHANGED modelVars
    /\ UNCHANGED <<config, dataFile, header, maxOffset, chunkI, idx>>
    /\ UNCHANGED notLoad

\* line 196 and the loop's ++idx
LoadPushLayer ==
    /\ lPc = "layers"
    /\ idx < nLayers
    /\ field > 9
    /\ layers' = Append(layers, layer)
    /\ idx' = idx + 1
    /\ field' = 1
    /\ layer' = [f \in 1..9 |-> NoParameter]
    /\ UNCHANGED <<nLayers, dVocab, dModel, dFFN, dAttnHead, dAttnKV, dAttnQ, ropeFreq,
                   normEps, embedTokens, finalNorm, parameterData, memory>>
    /\ UNCHANGED <<config, dataFile, lPc, header, maxOffset, chunkI>>
    /\ UNCHANGED notLoad

\* line 198
LoadFinalNorm ==
    /\ lPc = "layers"
    /\ idx >= nLayers
    /\ LET r == LoadTensor(header, TensorName("norm"))
       IN  IF r.thrown # ""
           THEN lPc' = "failed" /\ UNCHANGED finalNorm
           ELSE finalNorm' = r.param /\ lPc' = "loaded"
    /\ UNCHANGED <<nLayers, dVocab, dModel, dFFN, dAttnHead, dAttnKV, dAttnQ, ropeFreq,
                   normEps, embedTokens, layers, parameterData, memory>>
    /\ UNCHANGED <<config, dataFile, header, maxOffset, chunkI, idx, layer, field>>
    /\ UNCHANGED notLoad

NextLoad ==
    \/ LoadConfig
    \/ LoadHeader
    \/ LoadChunk
    \/ LoadEmbedTokens
    \/ LoadLayerField
    \/ LoadPushLayer
    \/ LoadFinalNorm

SpecLoad == InitLoad /\ [][NextLoad]_vars

\* ------------------------------------- claims about the start-up of main
\* every Parameter the Model holds
Views ==
    {embedTokens, finalNorm} \cup {layers[i][f] : i \in DOMAIN layers, f \in 1..9}

RECURSIVE CopiedUpTo(_)
\* the bytes the first k copies into the buffer brought in
CopiedUpTo(k) == IF k = 0 THEN 0 ELSE CopiedUpTo(k - 1) + memory[k].len

\* the copies made into the buffer are of at most chunkSize bytes each, are
\* disjoint, cover [0, maxOffset) and bring byte b of the tensor region to
\* byte b of the buffer
ChunksCover ==
    /\ \A k \in DOMAIN memory :
         /\ memory[k].len \in 1..chunkSize
         /\ memory[k].dst = CopiedUpTo(k - 1)
         /\ memory[k].src = memory[k].dst
    /\ CopiedUpTo(Len(memory)) = maxOffset

\* C6: after loadParameters has returned, _parameterData is sized to the
\* largest end offset of the header's entries, the chunked copy has filled
\* [0, maxOffset) with the tensor bytes in disjoint reads of at most 65536
\* bytes, and every View points at bytes inside the buffer's contents.
C6_OwnedBuffer ==
    lPc = "loaded" =>
        /\ parameterData.size = maxOffset
        /\ ChunksCover
        /\ \A v \in Views : v.data >= 0 /\ v.data < parameterData.size

\* C7 as stated: when loadParameters has returned normally, no tensor of the
\* header has a dtype other than BF16.
C7_EveryTensorBF16 ==
    lPc = "loaded" => \A name \in DOMAIN header : header[name].dtype = "BF16"

\* C7 as amended: when loadParameters has returned normally, every tensor it
\* loads (embed_tokens, norm and the nine of each of the nLayers layers) is in
\* the header with dtype BF16, and the Model holds a View at the start offset
\* of each: its embedding, its final norm and the nine of each Layer.
C7_LoadedTensorsBF16 ==
    lPc = "loaded" =>
        /\ \A name \in RequiredTensors(nLayers) :
             name \in DOMAIN header /\ header[name].dtype = "BF16"
        /\ embedTokens.data = header[TensorName("embed_tokens")].data_offsets[1]
        /\ finalNorm.data = header[TensorName("norm")].data_offsets[1]
        /\ Len(layers) = nLayers
        /\ \A i \in Idx(nLayers), f \in 1..9 :
             layers[i + 1][f].data = header[LayerTensorName(i, f)].data_offsets[1]

\* C7 witness: a load of a model with layers has returned normally although
\* the header names a tensor that is not BF16 (one the model does not load).
C7_Witness ==
    /\ lPc = "loaded"
    /\ nLayers >= 1
    /\ Len(layers) = nLayers
    /\ \E name \in DOMAIN header : header[name].dtype # "BF16"

\* C9, for the configurations with at least one KV head: for every Model
\* loadConfig produces from one, dAttnKV * dAttnQ is the configured
\* num_attention_heads, so that the query projection is
\* num_attention_heads * head_dim wide.
C9_HeadsProductExact ==
    (lPc \notin {"start", "crashed"} /\ config.num_key_value_heads > 0) =>
        /\ dAttnKV = config.num_key_value_heads
        /\ dAttnKV * dAttnQ = config.num_attention_heads
        /\ QueryWidth(dAttnKV, dAttnQ, dAttnHead)
              = config.num_attention_heads * config.head_dim

\* ------------------------------------------------- the operators of predict
\* the number of elements of an Activation (its size field)
Size(x) == Cardinality(DOMAIN x)

\* the bf16 element of the tensor region at element offset e of the file
FileBf16(e, seed) == Bf16Of(Pattern(e, seed))

\* the int16_t at byte offset `at` of the storage behind _parameterData.data():
\* what the copy covering it brought in
ReadBf16(at) ==
    IF \E c \in DOMAIN memory : memory[c].dst <= at /\ at < memory[c].dst + memory[c].len
    THEN LET c == CHOOSE c \in DOMAIN memory :
                     memory[c].dst <= at /\ at < memory[c].dst + memory[c].len
         IN  FileBf16((memory[c].src + (at - memory[c].dst)) \div 2, dataFile.seed)
    ELSE Undef

\* Parameter::get_bf16(), as the n elements that follow the pointer
Weight(param, n) == [e \in Idx(n) |-> ReadBf16(param.data + 2 * e)]

\* embeddingLookup: lines 204-214
EmbeddingLookup(toks, weight, width) ==
    [e \in Idx(Len(toks) * width) |->
        bf16_to_float(Load(weight, toks[(e \div width) + 1] * width + (e % width)))]

\* rmsNorm: lines 216-229.  sqrt(sumSq / dModel + eps) is at least sqrt(eps) > 0;
\* norm is held as its reciprocal, and x * norm is x divided by it.
RmsNormDenominator(x, i0, width, eps) ==
    LET sq == [i \in Idx(width) |-> FMul(x[i0 + i], x[i0 + i])]
        r  == FSqrt(FAdd(FDiv(FoldAdd(sq, 0, 0), width), eps))
    IN  IF r = 0 THEN 1 ELSE r

RmsNorm(x, weight, width, eps) ==
    [e \in Idx(Size(x)) |->
        FMul(FDiv(x[e], RmsNormDenominator(x, e - (e % width), width, eps)),
             bf16_to_float(Load(weight, e % width)))]

\* rotate: lines 247-263, x of shape (seq, nHeads, 2 * len(freq))
Rotate(x, freq, nHeads) ==
    LET half == Len(freq)
        headDim == 2 * half
    IN  [e \in Idx(Size(x)) |->
           LET n == e \div (nHeads * headDim)
               r == e % headDim
               i == IF r < half THEN r ELSE r - half
               idxRe == e - r + i
               idxIm == idxRe + half
               cosA == FCos(freq[i + 1] * n)
               sinA == FSin(freq[i + 1] * n)
           IN  IF r < half
               THEN FSub(FMul(cosA, x[idxRe]), FMul(sinA, x[idxIm]))
               ELSE FAdd(FMul(cosA, x[idxIm]), FMul(sinA, x[idxRe]))]

\* selfAttention: lines 281-313, as a function of its arguments
SelfAttention(xq, xk, xv, dKV, dQ, dHead) ==
    LET dSeq == Size(xk) \div (dKV * dHead)
    IN  [e \in Idx(Size(xq)) |->
           LET sQ == e \div (dKV * dQ * dHead)
               iKV == (e \div (dQ * dHead)) % dKV
               iQ == (e \div dHead) % dQ
               i == e % dHead
               raw == [s \in Idx(ScoresSize(sQ)) |->
                          ScoreOf(xq, xk, sQ, s, iKV, iQ, dKV, dQ, dHead)]
           IN  MixOf(Softmax(raw, ScoresSize(sQ)), xv, sQ, iKV, i, dKV, dHead, dSeq)]

\* addInPlace: lines 315-319; both arguments as they are left
AddInPlace(lhs, rhs) ==
    [lhs |-> [e \in Idx(Size(lhs)) |-> FAdd(lhs[e], Load(rhs, e))], rhs |-> rhs]

\* swiGluInPlace: lines 321-325; both arguments as they are left
SwiGluInPlace(x, gate) ==
    [x |-> [e \in Idx(Size(x)) |->
               FMul(x[e], FDiv(Load(gate, e), FAdd(1, FExp(-Load(gate, e)))))],
     gate |-> gate]

\* line 360: where the arg-max slice begins in logits
ArgMaxBegin(size, vocab) == size - vocab

\* std::max_element over n elements from `begin` on, as an offset from begin:
\* the first of the largest
MaxElementLast(x, begin, n) ==
    CHOOSE t \in Idx(n) :
        /\ \A u \in Idx(n) : x[begin + u] <= x[begin + t]
        /\ \A u \in Idx(n) : x[begin + u] = x[begin + t] => u <= t

MaxElement(x, begin, n) ==
    CHOOSE t \in Idx(n) :
        /\ \A u \in Idx(n) : x[begin + u] <= x[begin + t]
        /\ \A u \in Idx(t) : x[begin + u] < x[begin + t]

\* ---------------------------------------------------------------- predict
\* the sizes of the models that are run: vocab_size, hidden_size (also the
\* intermediate_size) and head_dim, which is even as the halves of rotate need
VocabSize == 3

HiddenSize == 2

HalfHeadDim == 1

HeadDim == 2 * HalfHeadDim

\* (num_key_value_heads, query heads per KV head) of the models that are run
HeadShapes == {<<1, 2>>, <<2, 1>>}

\* the elements of each tensor of a layer, in the order of LayerTensor
LayerElems(dKV, dQ) ==
    << HiddenSize, QueryWidth(dKV, dQ, HeadDim) * HiddenSize, dKV * HeadDim * HiddenSize,
       dKV * HeadDim * HiddenSize, HiddenSize * QueryWidth(dKV, dQ, HeadDim), HiddenSize,
       HiddenSize * HiddenSize, HiddenSize * HiddenSize, HiddenSize * HiddenSize >>

\* the elements of the k-th tensor of a file of n layers: embed_tokens, the
\* layers' tensors, norm
TensorElems(k, n, dKV, dQ) ==
    IF k = 1 THEN VocabSize * HiddenSize
    ELSE IF k = 9 * n + 2 THEN HiddenSize
    ELSE LayerElems(dKV, dQ)[((k - 2) % 9) + 1]

RECURSIVE TensorStart(_, _, _, _)
\* the byte offset of the k-th tensor: 2 bytes per element, no gaps
TensorStart(k, n, dKV, dQ) ==
    IF k = 1 THEN 0
    ELSE TensorStart(k - 1, n, dKV, dQ) + 2 * TensorElems(k - 1, n, dKV, dQ)

\* the header of a well-formed BF16 weight container of n layers
ModelHeader(n, dKV, dQ) ==
    LET names == FileTensors(n, FALSE)
        at(name) == CHOOSE k \in 1..Len(names) : names[k] = name
    IN  [name \in {names[k] : k \in 1..Len(names)} |->
            [dtype |-> "BF16",
             data_offsets |-> <<TensorStart(at(name), n, dKV, dQ),
                                TensorStart(at(name) + 1, n, dKV, dQ)>>]]

\* the field of a Layer
LayerParam(l, name) == l[CHOOSE f \in 1..9 : LayerField[f] = name]

\* the stage of predict that follows `pc`; `more` says whether the range-for
\* over model.layers has a layer left
StageAfterNoKeyRotation(pc, more) ==
    CASE pc = "embed" -> IF more THEN "attnNorm" ELSE "finalNorm"
      [] pc = "attnNorm" -> "projQ"
      [] pc = "projQ" -> "projK"
      [] pc = "projK" -> "projV"
      [] pc = "projV" -> "rotQ"
      [] pc = "rotQ" -> "selfAttn"
      [] pc = "rotK" -> "selfAttn"
      [] pc = "selfAttn" -> "projO"
      [] pc = "projO" -> "attnAdd"
      [] pc = "attnAdd" -> "mlpNorm"
      [] pc = "mlpNorm" -> "projUp"
      [] pc = "projUp" -> "projGate"
      [] pc = "projGate" -> "swiGlu"
      [] pc = "swiGlu" -> "projDown"
      [] pc = "projDown" -> "mlpAdd"
      [] pc = "mlpAdd" -> IF more THEN "attnNorm" ELSE "finalNorm"
      [] pc = "finalNorm" -> "logits"
      [] pc = "logits" -> "argmax"
      [] OTHER -> "printed"

StageAfter(pc, more) ==
    CASE pc = "embed" -> IF more THEN "attnNorm" ELSE "finalNorm"
      [] pc = "attnNorm" -> "projQ"
      [] pc = "projQ" -> "projK"
      [] pc = "projK" -> "projV"
      [] pc = "projV" -> "rotQ"
      [] pc = "rotQ" -> "rotK"
      [] pc = "rotK" -> "selfAttn"
      [] pc = "selfAttn" -> "projO"
      [] pc = "projO" -> "attnAdd"
      [] pc = "attnAdd" -> "mlpNorm"
      [] pc = "mlpNorm" -> "projUp"
      [] pc = "projUp" -> "projGate"
      [] pc = "projGate" -> "swiGlu"
      [] pc = "swiGlu" -> "projDown"
      [] pc = "projDown" -> "mlpAdd"
      [] pc = "mlpAdd" -> IF more THEN "attnNorm" ELSE "finalNorm"
      [] pc = "finalNorm" -> "logits"
      [] pc = "logits" -> "argmax"
      [] OTHER -> "printed"

\* an entry of the log of applied operators: the operator, the Parameter it was
\* given, the Activation it read, the layer it ran in (0 outside the layers)
\* and the number of residual adds hidden had received
Applied(op, weight, arg) ==
    [op |-> op, weight |-> weight, arg |-> arg,
     layer |-> IF rPc \in {"embed", "finalNorm", "logits", "argmax"} THEN 0 ELSE it,
     adds |-> hiddenAdds]

\* the token ids a line can hold: those of the vocabulary and one beyond it
TokenIds == 0..VocabSize

Lines == UNION {[1..n -> TokenIds] : n \in 0..MaxTokens}

\* main after loadConfig and loadParameters have returned, for a well-formed
\* container: what LoadHeader, LoadChunk and the loads of the Views leave.
\* The two head shapes come with different tensor contents.
InitPredict ==
    /\ \E n \in 0..MaxPredictLayers, shape \in HeadShapes :
         /\ config = [num_hidden_layers |-> n, vocab_size |-> VocabSize,
                      hidden_size |-> HiddenSize, intermediate_size |-> HiddenSize,
                      head_dim |-> HeadDim, num_key_value_heads |-> shape[1],
                      num_attention_heads |-> shape[1] * shape[2]]
         /\ header = ModelHeader(n, shape[1], shape[2])
         /\ dataFile = [header |-> header, seed |-> shape[1] - 1, pos |-> MaxEndOffset(header)]
    /\ nLayers = config.num_hidden_layers
    /\ dVocab = config.vocab_size
    /\ dModel = config.hidden_size
    /\ dFFN = config.intermediate_size
    /\ dAttnHead = config.head_dim
    /\ dAttnKV = config.num_key_value_heads
    /\ dAttnQ = DAttnQ(config.num_attention_heads, config.num_key_value_heads)
    /\ normEps = 0
    /\ ropeFreq = RopeFreq(config.head_dim)
    /\ maxOffset = MaxEndOffset(header)
    /\ parameterData = Reserve([size |-> 0, capacity |-> 0], maxOffset)
    /\ memory = <<[dst |-> 0, src |-> 0, len |-> maxOffset]>>
    /\ chunkI = chunkSize
    /\ embedTokens = LoadTensor(header, TensorName("embed_tokens")).param
    /\ layers = [i \in 1..nLayers |->
                    [f \in 1..9 |-> LoadTensor(header, LayerTensorName(i - 1, f)).param]]
    /\ finalNorm = LoadTensor(header, TensorName("norm")).param
    /\ idx = nLayers /\ field = 1 /\ layer = [f \in 1..9 |-> NoParameter]
    /\ lPc = "loaded"
    /\ tokens = <<>> /\ call = 0 /\ rPc = "readline" /\ it = 0
    /\ NoActivations
    /\ nextToken = 0 /\ printed = <<>> /\ trace = <<>> /\ hiddenAdds = 0 /\ oob = {}
    /\ IdleAttention
    /\ IdleProject

\* the widths the blocks use
QW == QueryWidth(dAttnKV, dAttnQ, dAttnHead)

KW == dAttnKV * dAttnHead

\* the Layer the range-for is at
Cur == layers[it]

\* lines 383-391: a line was read and split into token ids
ReadLine ==
    /\ rPc = "readline"
    /\ tokens' \in Lines
    /\ call' = 1
    /\ printed' = <<>>
    /\ trace' = <<>>
    /\ hiddenAdds' = 0
    /\ oob' = {}
    /\ it' = 0
    /\ rPc' = "embed"
    /\ UNCHANGED <<hidden, attn_z, attn_q, attn_k, attn_v, attn_mix,
                   mlp_z, mlp_up, mlp_gate, blockOut, logits, nextToken>>
    /\ UNCHANGED notRun

\* line 383: std::getline fails; main returns 0
EndOfInput ==
    /\ rPc = "readline"
    /\ rPc' = "exit"
    /\ UNCHANGED <<tokens, call, it, hidden, attn_z, attn_q, attn_k, attn_v, attn_mix,
                   mlp_z, mlp_up, mlp_gate, blockOut, logits, nextToken, printed, trace, hiddenAdds, oob>>
    /\ UNCHANGED notRun

\* what a load past the end of a tensor can yield: the elements of a token id
\* outside the vocabulary are read behind embedTokens
Beyond == {-1, 1}

\* line 353; the range-for of line 354 begins
PredictEmbed ==
    /\ rPc = "embed"
    /\ LET looked == EmbeddingLookup(tokens, Weight(embedTokens, dVocab * dModel), dModel)
           beyond == {e \in DOMAIN looked : tokens[(e \div dModel) + 1] >= dVocab}
       IN  IF beyond = {}
           THEN /\ hidden' = looked
                /\ oob' = oob
                /\ rPc' = StageAfter("embed", 1 <= nLayers)
           ELSE /\ oob' = oob \cup {"embeddingLookup: weight"}
                /\ \/ /\ rPc' = "crashed"
                      /\ hidden' = looked
                   \/ /\ rPc' = StageAfter("embed", 1 <= nLayers)
                      /\ \E u \in Beyond :
                           hidden' = [e \in DOMAIN looked |->
                                        IF e \in beyond THEN u ELSE looked[e]]
    /\ trace' = Append(trace, Applied("embeddingLookup", "embedTokens", "tokens"))
    /\ it' = 1
    /\ UNCHANGED <<tokens, call, attn_z, attn_q, attn_k, attn_v, attn_mix,
                   mlp_z, mlp_up, mlp_gate, blockOut, logits, nextToken, printed, hiddenAdds>>
    /\ UNCHANGED notRun

\* line 331
AttnRmsNorm ==
    /\ rPc = "attnNorm"
    /\ attn_z' = RmsNorm(hidden, Weight(LayerParam(Cur, "attnNorm"), dModel), dModel, normEps)
    /\ trace' = Append(trace, Applied("rmsNorm", "attnNorm", "hidden"))
    /\ rPc' = StageAfter("attnNorm", it < nLayers)
    /\ UNCHANGED <<tokens, call, it, hidden, attn_q, attn_k, attn_v, attn_mix,
                   mlp_z, mlp_up, mlp_gate, blockOut, logits, nextToken, printed, hiddenAdds, oob>>
    /\ UNCHANGED notRun

\* lines 332-333
AttnProjectQ ==
    /\ rPc = "projQ"
    /\ attn_q' = Project(attn_z, Weight(LayerParam(Cur, "attnQ"), QW * dModel), dModel, QW)
    /\ trace' = Append(trace, Applied("project", "attnQ", "z"))
    /\ rPc' = StageAfter("projQ", it < nLayers)
    /\ UNCHANGED <<tokens, call, it, hidden, attn_z, attn_k, attn_v, attn_mix,
                   mlp_z, mlp_up, mlp_gate, blockOut, logits, nextToken, printed, hiddenAdds, oob>>
    /\ UNCHANGED notRun

\* line 334
AttnProjectK ==
    /\ rPc = "projK"
    /\ attn_k' = Project(attn_z, Weight(LayerParam(Cur, "attnK"), KW * dModel), dModel, KW)
    /\ trace' = Append(trace, Applied("project", "attnK", "z"))
    /\ rPc' = StageAfter("projK", it < nLayers)
    /\ UNCHANGED <<tokens, call, it, hidden, attn_z, attn_q, attn_v, attn_mix,
                   mlp_z, mlp_up, mlp_gate, blockOut, logits, nextToken, printed, hiddenAdds, oob>>
    /\ UNCHANGED notRun

\* line 335
AttnProjectV ==
    /\ rPc = "projV"
    /\ attn_v' = Project(attn_z, Weight(LayerParam(Cur, "attnV"), KW * dModel), dModel, KW)
    /\ trace' = Append(trace, Applied("project", "attnV", "z"))
    /\ rPc' = StageAfter("projV", it < nLayers)
    /\ UNCHANGED <<tokens, call, it, hidden, attn_z, attn_q, attn_k, attn_mix,
                   mlp_z, mlp_up, mlp_gate, blockOut, logits, nextToken, printed, hiddenAdds, oob>>
    /\ UNCHANGED notRun

\* line 336
AttnRotateQ ==
    /\ rPc = "rotQ"
    /\ attn_q' = Rotate(attn_q, ropeFreq, dAttnKV * dAttnQ)
    /\ trace' = Append(trace, Applied("rotate", "", "q"))
    /\ rPc' = StageAfter("rotQ", it < nLayers)
    /\ UNCHANGED <<tokens, call, it, hidden, attn_z, attn_k, attn_v, attn_mix,
                   mlp_z, mlp_up, mlp_gate, blockOut, logits, nextToken, printed, hiddenAdds, oob>>
    /\ UNCHANGED notRun

\* line 337
AttnRotateK ==
    /\ rPc = "rotK"
    /\ attn_k' = Rotate(attn_k, ropeFreq, dAttnKV)
    /\ trace' = Append(trace, Applied("rotate", "", "k"))
    /\ rPc' = StageAfter("rotK", it < nLayers)
    /\ UNCHANGED <<tokens, call, it, hidden, attn_z, attn_q, attn_v, attn_mix,
                   mlp_z, mlp_up, mlp_gate, blockOut, logits, nextToken, printed, hiddenAdds, oob>>
    /\ UNCHANGED notRun

\* line 338
AttnSelfAttention ==
    /\ rPc = "selfAttn"
    /\ attn_mix' = SelfAttention(attn_q, attn_k, attn_v, dAttnKV, dAttnQ, dAttnHead)
    /\ trace' = Append(trace, Applied("selfAttention", "", "q,k,v"))
    /\ rPc' = StageAfter("selfAttn", it < nLayers)
    /\ UNCHANGED <<tokens, call, it, hidden, attn_z, attn_q, attn_k, attn_v,
                   mlp_z, mlp_up, mlp_gate, blockOut, logits, nextToken, printed, hiddenAdds, oob>>
    /\ UNCHANGED notRun

\* lines 339-340: the value attention returns
AttnProjectO ==
    /\ rPc = "projO"
    /\ blockOut' = Project(attn_mix, Weight(LayerParam(Cur, "attnO"), dModel * QW), QW, dModel)
    /\ trace' = Append(trace, Applied("project", "attnO", "mix"))
    /\ rPc' = StageAfter("projO", it < nLayers)
    /\ UNCHANGED <<tokens, call, it, hidden, attn_z, attn_q, attn_k, attn_v,
                   attn_mix, mlp_z, mlp_up, mlp_gate, logits, nextToken, printed, hiddenAdds, oob>>
    /\ UNCHANGED notRun

\* line 355: addInPlace(hidden, attention(...)); attention's locals and
\* the temporary are destroyed
AttnResidual ==
    /\ rPc = "attnAdd"
    /\ hidden' = AddInPlace(hidden, blockOut).lhs
    /\ oob' = oob \cup (IF Size(blockOut) < Size(hidden) THEN {"addInPlace: rhs"} ELSE {})
    /\ hiddenAdds' = hiddenAdds + 1
    /\ trace' = Append(trace, Applied("addInPlace", "", "attention"))
    /\ blockOut' = <<>>
    /\ attn_z' = <<>> /\ attn_q' = <<>> /\ attn_k' = <<>> /\ attn_v' = <<>> /\ attn_mix' = <<>>
    /\ rPc' = StageAfter("attnAdd", it < nLayers)
    /\ UNCHANGED <<tokens, call, it, mlp_z, mlp_up, mlp_gate, logits, nextToken, printed>>
    /\ UNCHANGED notRun

\* line 344
MlpRmsNorm ==
    /\ rPc = "mlpNorm"
    /\ mlp_z' = RmsNorm(hidden, Weight(LayerParam(Cur, "mlpNorm"), dModel), dModel, normEps)
    /\ trace' = Append(trace, Applied("rmsNorm", "mlpNorm", "hidden"))
    /\ rPc' = StageAfter("mlpNorm", it < nLayers)
    /\ UNCHANGED <<tokens, call, it, hidden, attn_z, attn_q, attn_k, attn_v,
                   attn_mix, mlp_up, mlp_gate, blockOut, logits, nextToken, printed, hiddenAdds, oob>>
    /\ UNCHANGED notRun

\* line 345
MlpProjectUp ==
    /\ rPc = "projUp"
    /\ mlp_up' = Project(mlp_z, Weight(LayerParam(Cur, "mlpUp"), dFFN * dModel), dModel, dFFN)
    /\ trace' = Append(trace, Applied("project", "mlpUp", "z"))
    /\ rPc' = StageAfter("projUp", it < nLayers)
    /\ UNCHANGED <<tokens, call, it, hidden, attn_z, attn_q, attn_k, attn_v,
                   attn_mix, mlp_z, mlp_gate, blockOut, logits, nextToken, printed, hiddenAdds, oob>>
    /\ UNCHANGED notRun

\* line 346
MlpProjectGate ==
    /\ rPc = "projGate"
    /\ mlp_gate' = Project(mlp_z, Weight(LayerParam(Cur, "mlpGate"), dFFN * dModel), dModel, dFFN)
    /\ trace' = Append(trace, Applied("project", "mlpGate", "z"))
    /\ rPc' = StageAfter("projGate", it < nLayers)
    /\ UNCHANGED <<tokens, call, it, hidden, attn_z, attn_q, attn_k, attn_v,
                   attn_mix, mlp_z, mlp_up, blockOut, logits, nextToken, printed, hiddenAdds, oob>>
    /\ UNCHANGED notRun

\* line 347
MlpSwiGlu ==
    /\ rPc = "swiGlu"
    /\ mlp_up' = SwiGluInPlace(mlp_up, mlp_gate).x
    /\ mlp_gate' = SwiGluInPlace(mlp_up, mlp_gate).gate
    /\ oob' = oob \cup (IF Size(mlp_gate) < Size(mlp_up) THEN {"swiGluInPlace: gate"} ELSE {})
    /\ trace' = Append(trace, Applied("swiGluInPlace", "", "up,gate"))
    /\ rPc' = StageAfter("swiGlu", it < nLayers)
    /\ UNCHANGED <<tokens, call, it, hidden, attn_z, attn_q, attn_k,
                   attn_v, attn_mix, mlp_z, blockOut, logits, nextToken, printed, hiddenAdds>>
    /\ UNCHANGED notRun

\* line 348: the value mlp returns
MlpProjectDown ==
    /\ rPc = "projDown"
    /\ blockOut' = Project(mlp_up, Weight(LayerParam(Cur, "mlpDown"), dModel * dFFN), dFFN, dModel)
    /\ trace' = Append(trace, Applied("project", "mlpDown", "up"))
    /\ rPc' = StageAfter("projDown", it < nLayers)
    /\ UNCHANGED <<tokens, call, it, hidden, attn_z, attn_q, attn_k, attn_v,
                   attn_mix, mlp_z, mlp_up, mlp_gate, logits, nextToken, printed, hiddenAdds, oob>>
    /\ UNCHANGED notRun

\* line 356: addInPlace(hidden, mlp(...)); mlp's locals and the temporary are
\* destroyed; the range-for moves to the next layer
MlpResidual ==
    /\ rPc = "mlpAdd"
    /\ hidden' = AddInPlace(hidden, blockOut).lhs
    /\ oob' = oob \cup (IF Size(blockOut) < Size(hidden) THEN {"addInPlace: rhs"} ELSE {})
    /\ hiddenAdds' = hiddenAdds + 1
    /\ trace' = Append(trace, Applied("addInPlace", "", "mlp"))
    /\ blockOut' = <<>>
    /\ mlp_z' = <<>> /\ mlp_up' = <<>> /\ mlp_gate' = <<>>
    /\ it' = it + 1
    /\ rPc' = StageAfter("mlpAdd", it + 1 <= nLayers)
    /\ UNCHANGED <<tokens, call, attn_z, attn_q, attn_k,
                   attn_v, attn_mix, logits, nextToken, printed>>
    /\ UNCHANGED notRun

\* line 358
PredictFinalNorm ==
    /\ rPc = "finalNorm"
    /\ hidden' = RmsNorm(hidden, Weight(finalNorm, dModel), dModel, normEps)
    /\ trace' = Append(trace, Applied("rmsNorm", "finalNorm", "hidden"))
    /\ rPc' = StageAfter("finalNorm", it < nLayers)
    /\ UNCHANGED <<tokens, call, it, attn_z, attn_q, attn_k, attn_v, attn_mix,
                   mlp_z, mlp_up, mlp_gate, blockOut, logits, nextToken, printed, hiddenAdds, oob>>
    /\ UNCHANGED notRun

\* line 359
PredictLogits ==
    /\ rPc = "logits"
    /\ logits' = Project(hidden, Weight(embedTokens, dVocab * dModel), dModel, dVocab)
    /\ trace' = Append(trace, Applied("project", "embedTokens", "hidden"))
    /\ rPc' = StageAfter("logits", it < nLayers)
    /\ UNCHANGED <<tokens, call, it, hidden, attn_z, attn_q, attn_k, attn_v,
                   attn_mix, mlp_z, mlp_up, mlp_gate, blockOut, nextToken, printed, hiddenAdds, oob>>
    /\ UNCHANGED notRun

\* lines 360-362.  When the slice [logits.size - dVocab, logits.size) begins before
\* logits, max_element reads what lies before the buffer: the read traps, or
\* its result is whatever those bytes make it.
PredictArgMax ==
    /\ rPc = "argmax"
    /\ trace' = Append(trace, Applied("max_element", "", "logits"))
    /\ IF ArgMaxBegin(Size(logits), dVocab) >= 0
       THEN /\ nextToken' = MaxElement(logits, ArgMaxBegin(Size(logits), dVocab), dVocab)
            /\ printed' = Append(printed, nextToken')
            /\ rPc' = "printed"
            /\ UNCHANGED oob
       ELSE /\ oob' = oob \cup {"max_element: logits"}
            /\ \/ /\ nextToken' \in Idx(dVocab)
                  /\ printed' = Append(printed, nextToken')
                  /\ rPc' = "printed"
               \/ /\ rPc' = "crashed"
                  /\ UNCHANGED <<nextToken, printed>>
    /\ UNCHANGED <<tokens, call, it, hidden, attn_z, attn_q, attn_k,
                   attn_v, attn_mix, mlp_z, mlp_up, mlp_gate, blockOut, logits, hiddenAdds>>
    /\ UNCHANGED notRun

\* line 363: predict returns and its Activations are destroyed; main calls it
\* again (line 393) or reads the next line
PredictReturn ==
    /\ rPc = "printed"
    /\ hidden' = <<>>
    /\ logits' = <<>>
    /\ nextToken' = 0
    /\ IF call = 1
       THEN /\ call' = 2
            /\ rPc' = "embed"
            /\ trace' = <<>>
            /\ hiddenAdds' = 0
            /\ oob' = {}
            /\ it' = 0
       ELSE /\ rPc' = "readline"
            /\ UNCHANGED <<call, trace, hiddenAdds, oob, it>>
    /\ UNCHANGED <<tokens, attn_z, attn_q, attn_k, attn_v, attn_mix,
                   mlp_z, mlp_up, mlp_gate, blockOut, printed>>
    /\ UNCHANGED notRun

NextPredict ==
    \/ ReadLine
    \/ EndOfInput
    \/ PredictEmbed
    \/ AttnRmsNorm
    \/ AttnProjectQ
    \/ AttnProjectK
    \/ AttnProjectV
    \/ AttnRotateQ
    \/ AttnRotateK
    \/ AttnSelfAttention
    \/ AttnProjectO
    \/ AttnResidual
    \/ MlpRmsNorm
    \/ MlpProjectUp
    \/ MlpProjectGate
    \/ MlpSwiGlu
    \/ MlpProjectDown
    \/ MlpResidual
    \/ PredictFinalNorm
    \/ PredictLogits
    \/ PredictArgMax
    \/ PredictReturn

SpecPredict == InitPredict /\ [][NextPredict]_vars

\* -------------------------------------------------- claims about predict
\* the stages one layer goes through, in order: the attention block with its
\* residual add, then the feed-forward block with its residual add
LayerStages ==
    << "attn.rmsNorm", "attn.projectQKV", "attn.projectQKV", "attn.projectQKV",
       "attn.rotateQK", "attn.rotateQK", "attn.selfAttention", "attn.projectOut",
       "residualAdd",
       "mlp.rmsNorm", "mlp.projectGateUp", "mlp.projectGateUp", "mlp.swiGlu",
       "mlp.projectDown", "residualAdd" >>

RECURSIVE StagesOfLayers(_)
StagesOfLayers(n) == IF n = 0 THEN <<>> ELSE StagesOfLayers(n - 1) \o LayerStages

\* the stage sequence of a whole call for a model of n layers
StagesOfPredict(n) ==
    <<"embeddingLookup">> \o StagesOfLayers(n)
        \o <<"final.rmsNorm", "output.project", "argMax">>

\* the stage an applied operator belongs to
StageOf(a) ==
    CASE a.op = "embeddingLookup" -> "embeddingLookup"
      [] a.op = "rmsNorm" /\ a.weight = "attnNorm" -> "attn.rmsNorm"
      [] a.op = "project" /\ a.weight \in {"attnQ", "attnK", "attnV"} /\ a.arg = "z"
            -> "attn.projectQKV"
      [] a.op = "rotate" /\ a.arg \in {"q", "k"} -> "attn.rotateQK"
      [] a.op = "selfAttention" -> "attn.selfAttention"
      [] a.op = "project" /\ a.weight = "attnO" /\ a.arg = "mix" -> "attn.projectOut"
      [] a.op = "addInPlace" -> "residualAdd"
      [] a.op = "rmsNorm" /\ a.weight = "mlpNorm" -> "mlp.rmsNorm"
      [] a.op = "project" /\ a.weight \in {"mlpGate", "mlpUp"} /\ a.arg = "z"
            -> "mlp.projectGateUp"
      [] a.op = "swiGluInPlace" -> "mlp.swiGlu"
      [] a.op = "project" /\ a.weight = "mlpDown" /\ a.arg = "up" -> "mlp.projectDown"
      [] a.op = "rmsNorm" /\ a.weight = "finalNorm" -> "final.rmsNorm"
      [] a.op = "project" /\ a.weight = "embedTokens" -> "output.project"
      [] a.op = "max_element" -> "argMax"
      [] OTHER -> "other"

\* C4: predict runs one fixed stage sequence whatever the tokens are. The
\* operators applied so far are always a prefix of: embeddingLookup; for the
\* layers in stored order 1..nLayers the attention block (rmsNorm, the
\* projections to Q, K and V, the rotations of Q and of K, selfAttention, the
\* output projection) and its residual add, then the feed-forward block
\* (rmsNorm, the projections to gate and up, swiGlu, the down projection) and
\* its residual add; the final rmsNorm; the output projection; the arg-max.
\* A finished call has run the whole sequence. Each of Q, K, V and each of
\* gate, up is projected once per layer, V is never rotated, the k-th block
\* of 15 stages runs in layer k, and the rmsNorm of a layer's feed-forward
\* block reads hidden after that layer's attention residual add.
C4_StageSequence ==
    LET want == StagesOfPredict(nLayers)
    IN  /\ Len(trace) <= Len(want)
        /\ \A p \in DOMAIN trace :
             /\ StageOf(trace[p]) = want[p]
             /\ (p > 1 /\ p <= 1 + 15 * nLayers) =>
                  /\ trace[p].layer = ((p - 2) \div 15) + 1
                  /\ trace[p].op = "rmsNorm" =>
                       trace[p].adds = 2 * (trace[p].layer - 1)
                                         + (IF trace[p].weight = "mlpNorm" THEN 1 ELSE 0)
             /\ trace[p].weight = "finalNorm" => trace[p].adds = 2 * nLayers
             /\ \A r \in DOMAIN trace :
                  (r # p /\ trace[r].layer = trace[p].layer /\ trace[p].layer > 0
                     /\ trace[p].op \in {"project", "rotate"} /\ trace[r].op = trace[p].op)
                  => (trace[r].weight # trace[p].weight \/ trace[r].arg # trace[p].arg)
        /\ rPc = "printed" => Len(trace) = Len(want)

\* C4 witness: a call on a model of two layers has printed its token.
C4_Witness ==
    /\ rPc = "printed"
    /\ nLayers = 2
    /\ Len(tokens) = MaxTokens
    /\ Len(trace) = 4 + 15 * 2
    /\ trace[17].weight = "attnNorm" /\ trace[17].layer = 2 /\ trace[17].adds = 2
    /\ trace[26].weight = "mlpNorm" /\ trace[26].layer = 2 /\ trace[26].adds = 3
    /\ call = 2

\* the logits of every position: the output projection of the whole of hidden
AllLogits == Project(hidden, Weight(embedTokens, dVocab * dModel), dModel, dVocab)

\* C5 as stated, for the lines of at least one token: the output projection
\* covers the final position alone, so logits has exactly dVocab entries.
C5_LastPositionOnly ==
    (rPc \in {"argmax", "printed"} /\ Len(tokens) >= 1) => Size(logits) = dVocab

\* C5 as amended: the output projection (with the embedding weight) is
\* applied to the hidden vectors of all positions and produces
\* seq * dVocab logits; for a line of at least one token the emitted token
\* is the index in [0, dVocab) of the largest of the last dVocab logits,
\* those of the final position, and the first such index on ties.
C5_ArgMaxOfLastSlice ==
    rPc \in {"argmax", "printed"} =>
        /\ Size(logits) = Len(tokens) * dVocab
        /\ logits = AllLogits
        /\ (rPc = "printed" /\ Len(tokens) >= 1) =>
             LET base == (Len(tokens) - 1) * dVocab
             IN  /\ nextToken \in Idx(dVocab)
                 /\ \A u \in Idx(dVocab) : logits[base + u] <= logits[base + nextToken]
                 /\ \A u \in Idx(nextToken) : logits[base + u] < logits[base + nextToken]
                 /\ printed[Len(printed)] = nextToken

\* C5 witness: a call on two tokens has printed the first of two equal
\* largest logits of the final position, which is not where the logits of
\* the first position are largest.
C5_Witness ==
    /\ rPc = "printed"
    /\ Len(tokens) = 2
    /\ oob = {}
    /\ Size(logits) = 2 * dVocab
    /\ \E u \in Idx(dVocab) : u > nextToken /\ logits[dVocab + u] = logits[dVocab + nextToken]
    /\ logits[nextToken] < logits[MaxElement(logits, 0, dVocab)]

\* the Model as loadParameters left it
ModelAsLoaded ==
    /\ nLayers = config.num_hidden_layers
    /\ dVocab = config.vocab_size /\ dModel = config.hidden_size
    /\ dFFN = config.intermediate_size /\ dAttnHead = config.head_dim
    /\ dAttnKV = config.num_key_value_heads
    /\ dAttnKV * dAttnQ = config.num_attention_heads
    /\ ropeFreq = RopeFreq(dAttnHead)
    /\ embedTokens = LoadTensor(header, TensorName("embed_tokens")).param
    /\ finalNorm = LoadTensor(header, TensorName("norm")).param
    /\ layers = [i \in 1..nLayers |->
                    [f \in 1..9 |-> LoadTensor(header, LayerTensorName(i - 1, f)).param]]
    /\ memory = <<[dst |-> 0, src |-> 0, len |-> maxOffset]>>

\* C8: the Model is immutable after start-up. Across the predict calls the
\* Model is as it was loaded, a call begins with no Activation left from an
\* earlier one, swiGluInPlace leaves gate as the projection of z that it was,
\* and the two calls main makes for a line of token ids of the vocabulary
\* print the same token id.
C8_SameTokenTwice ==
    /\ ModelAsLoaded
    /\ rPc \in {"readline", "embed"} => NoActivations
    /\ rPc = "projDown" =>
         mlp_gate = Project(mlp_z, Weight(LayerParam(Cur, "mlpGate"), dFFN * dModel),
                            dModel, dFFN)
    /\ (Len(printed) = 2 /\ \A n \in DOMAIN tokens : tokens[n] < dVocab) =>
         printed[1] = printed[2]

\* C10, for the lines whose token ids are all in the vocabulary: on every
\* such line the driver passes to predict, the empty one included, no access
\* of the forward pass is out of bounds: hidden has seq * dModel elements at
\* every stage, the operands of each addInPlace have the same size, the
\* arg-max slice lies inside logits, the call returns and the token printed
\* is in [0, dVocab).
C10_InBounds ==
    (\A n \in DOMAIN tokens : tokens[n] < dVocab) =>
        /\ oob = {}
        /\ rPc \notin {"idle", "readline", "embed", "exit"} =>
             Size(hidden) = Len(tokens) * dModel
        /\ rPc \in {"attnAdd", "mlpAdd"} => Size(blockOut) = Size(hidden)
        /\ rPc \in {"argmax", "printed"} =>
             /\ ArgMaxBegin(Size(logits), dVocab) >= 0
             /\ ArgMaxBegin(Size(logits), dVocab) + dVocab <= Size(logits)
        /\ rPc = "printed" => nextToken \in Idx(dVocab)
        /\ rPc # "crashed"

=============================================================================
